---- MODULE Spec2Model ----
(***************************************************************************)
(* Model of multiqc/modules/picard/MarkDuplicates.py : parse_reports.      *)
(*                                                                         *)
(* The log files handed over by find_log_files are read line by line; the  *)
(* environment supplies each line (and, when a header row is parsed, the   *)
(* line that readline() returns next).  A line is a record                 *)
(*     [start : BOOLEAN, inp : token or NoInput, cells : Seq(STRING)]      *)
(* where start says that the lower-cased text contains "markduplicates"    *)
(* and "input", inp is the token the INPUT regular expression captures,    *)
(* and cells is the text split on the tab character.  A line contains the  *)
(* header marker when one of its cells is UNPAIRED_READ_DUPLICATES.        *)
(* Counts are whole numbers; Python floats are exact on them.              *)
(***************************************************************************)
EXTENDS Integers, Sequences, FiniteSets, TLC

\* ---------------------------------------------------------------- bounds
MaxFiles == 2
MaxLines == 3
MaxVal == 1

\* ------------------------------------------------------------ vocabulary
Names == {"A", "B"}
None == "None"
NoInput == "NoInput"

READ_PAIR_DUPLICATES == "READ_PAIR_DUPLICATES"
READ_PAIRS_EXAMINED == "READ_PAIRS_EXAMINED"
UNPAIRED_READS_EXAMINED == "UNPAIRED_READS_EXAMINED"
UNPAIRED_READ_DUPLICATES == "UNPAIRED_READ_DUPLICATES"
READ_PAIR_OPTICAL_DUPLICATES == "READ_PAIR_OPTICAL_DUPLICATES"
UNMAPPED_READS == "UNMAPPED_READS"

READS_IN_DUPLICATE_PAIRS == "READS_IN_DUPLICATE_PAIRS"
READS_IN_UNIQUE_PAIRS == "READS_IN_UNIQUE_PAIRS"
READS_IN_UNIQUE_UNPAIRED == "READS_IN_UNIQUE_UNPAIRED"
READS_IN_DUPLICATE_PAIRS_OPTICAL == "READS_IN_DUPLICATE_PAIRS_OPTICAL"
READS_IN_DUPLICATE_PAIRS_NONOPTICAL == "READS_IN_DUPLICATE_PAIRS_NONOPTICAL"
READS_IN_DUPLICATE_UNPAIRED == "READS_IN_DUPLICATE_UNPAIRED"
READS_UNMAPPED == "READS_UNMAPPED"

RawNames == {READ_PAIR_DUPLICATES, READ_PAIRS_EXAMINED, UNPAIRED_READS_EXAMINED,
             UNPAIRED_READ_DUPLICATES, READ_PAIR_OPTICAL_DUPLICATES, UNMAPPED_READS}

DerivedNames == {READS_IN_DUPLICATE_PAIRS, READS_IN_UNIQUE_PAIRS, READS_IN_UNIQUE_UNPAIRED,
                 READS_IN_DUPLICATE_PAIRS_OPTICAL, READS_IN_DUPLICATE_PAIRS_NONOPTICAL,
                 READS_IN_DUPLICATE_UNPAIRED, READS_UNMAPPED}

\* ---------------------------------------------------------- field values
\* A stored value is a float or, when float() raised ValueError, the text.
Num(n) == [isnum |-> TRUE, n |-> n, s |-> ""]
Text(s) == [isnum |-> FALSE, n |-> 0, s |-> s]

\* Decimal text of the counts 0, 1, 2, ...
Digits == <<"0", "1", "2", "3", "4", "5">>

\* float(s): succeeds exactly on the texts that spell a number.
IsFloat(s) == \E i \in 1..Len(Digits) : Digits[i] = s
float(s) == (CHOOSE i \in 1..Len(Digits) : Digits[i] = s) - 1

\* try: float(vals[i])  except ValueError: vals[i]
Coerce(s) == IF IsFloat(s) THEN Num(float(s)) ELSE Text(s)

\* dict helpers
EmptyDict == <<>>
Put(d, k, v) == [x \in (DOMAIN d) \cup {k} |-> IF x = k THEN v ELSE d[x]]
Pop(d, k) == [x \in (DOMAIN d) \ {k} |-> d[x]]
Get(d, k, dflt) == IF k \in DOMAIN d THEN d[k] ELSE dflt

\* Python's  value == 0 : true of the float 0.0, false of any text.
IsZero(v) == v.isnum /\ v.n = 0

\* ------------------------------------------------------------ input lines
\* Tokens following INPUT on a block-start line, and the canonical sample
\* name that strip('[]'), os.path.basename and clean_s_name make of each.
Inputs == {"A.bam", "[/run/B.bam]"}
clean_s_name(tok) ==
    CASE tok = "A.bam" -> "A"
      [] tok = "[/run/B.bam]" -> "B"

\* Header rows: the full table, one that lacks three of the columns the
\* derived metrics read, and one holding the marker column alone.
FullHeader == <<UNPAIRED_READS_EXAMINED, READ_PAIRS_EXAMINED, UNMAPPED_READS,
                UNPAIRED_READ_DUPLICATES, READ_PAIR_DUPLICATES, READ_PAIR_OPTICAL_DUPLICATES>>
PartHeader == <<READ_PAIRS_EXAMINED, UNPAIRED_READ_DUPLICATES, READ_PAIR_DUPLICATES>>
LoneHeader == <<UNPAIRED_READ_DUPLICATES>>
Headers == {FullHeader, PartHeader, LoneHeader}

\* Value rows, column by column in the order of FullHeader, and rows cut
\* short after the second column.
ExamCells == {Digits[n + 1] : n \in 0..MaxVal}
DupCells == {"0", "1"}
CountRows == {<<ure, rpe, "1", "0", "1", "1">> : ure \in ExamCells, rpe \in DupCells}
TextRows == {<<"0", "n/a", "1", "0", "1", "1">>,
             <<"0", "1", "1", "0", "n/a", "1">>,
             <<"0", "1", "n/a", "0", "1", "1">>}
FullRows == CountRows \cup TextRows
ShortRows == {SubSeq(r, 1, Len(LoneHeader) + 1) : r \in TextRows}
ValueRows == FullRows \cup ShortRows

StartLines == [start : {TRUE}, inp : Inputs \cup {NoInput}, cells : {<<"picard MarkDuplicates INPUT">>}]
\* A block-start line that also holds the header marker.
StartHeaderLine == [start |-> TRUE, inp |-> "A.bam",
                    cells |-> <<"picard MarkDuplicates INPUT", UNPAIRED_READ_DUPLICATES>>]
HeaderLines == [start : {FALSE}, inp : {NoInput}, cells : Headers]
ValueLines == [start : {FALSE}, inp : {NoInput}, cells : ValueRows]
\* An empty line; readline() at the end of the file returns the same text.
BlankLine == [start |-> FALSE, inp |-> NoInput, cells |-> <<"">>]
\* The lines the loop examines.  A line that is neither a block-start nor a
\* header line is passed over whatever its cells are, so the blank line and
\* one value row stand for all of them.
PlainLine == [start |-> FALSE, inp |-> NoInput, cells |-> CHOOSE r \in CountRows : TRUE]
Lines == StartLines \cup {StartHeaderLine} \cup HeaderLines \cup {PlainLine, BlankLine}
\* The lines readline() can return after a header row: any value row, an
\* empty line or the end of the file, a block-start line, a header line.
NextLines == ValueLines \cup {BlankLine, StartHeaderLine}
                \cup [start : {FALSE}, inp : {NoInput}, cells : {LoneHeader}]

\* 'markduplicates' in l.lower() and 'input' in l.lower()
IsStart(l) == l.start
\* 'UNPAIRED_READ_DUPLICATES' in l
IsHeader(l) == \E i \in 1..Len(l.cells) : l.cells[i] = UNPAIRED_READ_DUPLICATES

\* ------------------------------------------------------ MetricsTableParser
\* for i, k in enumerate(keys): d[k] = float(vals[i]) or vals[i];
\* vals[i] raises IndexError when the value row is shorter than the header,
\* leaving the fields stored so far.
RECURSIVE ParseFrom(_, _, _, _)
ParseFrom(keys, vals, i, d) ==
    IF i > Len(keys) THEN [rec |-> d, err |-> FALSE]
    ELSE IF i > Len(vals) THEN [rec |-> d, err |-> TRUE]
    ELSE ParseFrom(keys, vals, i + 1, Put(d, keys[i], Coerce(vals[i])))
\* Variant: the value row is rotated by one column before it is paired.
ParseRow_rotated(keys, vals) ==
    ParseFrom(keys, <<vals[Len(vals)]>> \o SubSeq(vals, 1, Len(vals) - 1), 1, EmptyDict)

ParseRow(keys, vals) == ParseFrom(keys, vals, 1, EmptyDict)

\* --------------------------------------------------------- SampleValidator
\* Variant: a field missing from the header counts as nonzero.
NoReads_default1(d) ==
    /\ IsZero(Get(d, READ_PAIRS_EXAMINED, Num(1)))
    /\ IsZero(Get(d, UNPAIRED_READS_EXAMINED, Num(1)))

\* d.get('READ_PAIRS_EXAMINED', 0) == 0 and d.get('UNPAIRED_READS_EXAMINED', 0) == 0
NoReads(d) ==
    /\ IsZero(Get(d, READ_PAIRS_EXAMINED, Num(0)))
    /\ IsZero(Get(d, UNPAIRED_READS_EXAMINED, Num(0)))

\* ------------------------------------------------ DerivedMetricsCalculator
\* The seven assignments of the loop body, in order: the name assigned, the
\* fields read (left to right), and whether they are operands of arithmetic.
DerivedOrder == <<READS_IN_DUPLICATE_PAIRS, READS_IN_UNIQUE_PAIRS, READS_IN_UNIQUE_UNPAIRED,
                  READS_IN_DUPLICATE_PAIRS_OPTICAL, READS_IN_DUPLICATE_PAIRS_NONOPTICAL,
                  READS_IN_DUPLICATE_UNPAIRED, READS_UNMAPPED>>
Operands(i) ==
    CASE i = 1 -> <<READ_PAIR_DUPLICATES>>
      [] i = 2 -> <<READ_PAIRS_EXAMINED, READ_PAIR_DUPLICATES>>
      [] i = 3 -> <<UNPAIRED_READS_EXAMINED, UNPAIRED_READ_DUPLICATES>>
      [] i = 4 -> <<READ_PAIR_OPTICAL_DUPLICATES>>
      [] i = 5 -> <<READS_IN_DUPLICATE_PAIRS, READS_IN_DUPLICATE_PAIRS_OPTICAL>>
      [] i = 6 -> <<UNPAIRED_READ_DUPLICATES>>
      [] i = 7 -> <<UNMAPPED_READS>>
IsArithmetic(i) == i \in 1..5
\* Variant: the unique pairs are not doubled.
DerivedValue_single(i, metr) ==
    CASE i = 1 -> Num(2 * metr[READ_PAIR_DUPLICATES].n)
      [] i = 2 -> Num(metr[READ_PAIRS_EXAMINED].n - metr[READ_PAIR_DUPLICATES].n)
      [] i = 3 -> Num(metr[UNPAIRED_READS_EXAMINED].n - metr[UNPAIRED_READ_DUPLICATES].n)
      [] i = 4 -> Num(2 * metr[READ_PAIR_OPTICAL_DUPLICATES].n)
      [] i = 5 -> Num(metr[READS_IN_DUPLICATE_PAIRS].n - metr[READS_IN_DUPLICATE_PAIRS_OPTICAL].n)
      [] i = 6 -> metr[UNPAIRED_READ_DUPLICATES]
      [] i = 7 -> metr[UNMAPPED_READS]

DerivedValue(i, metr) ==
    CASE i = 1 -> Num(2 * metr[READ_PAIR_DUPLICATES].n)
      [] i = 2 -> Num(2 * (metr[READ_PAIRS_EXAMINED].n - metr[READ_PAIR_DUPLICATES].n))
      [] i = 3 -> Num(metr[UNPAIRED_READS_EXAMINED].n - metr[UNPAIRED_READ_DUPLICATES].n)
      [] i = 4 -> Num(2 * metr[READ_PAIR_OPTICAL_DUPLICATES].n)
      [] i = 5 -> Num(metr[READS_IN_DUPLICATE_PAIRS].n - metr[READS_IN_DUPLICATE_PAIRS_OPTICAL].n)
      [] i = 6 -> metr[UNPAIRED_READ_DUPLICATES]
      [] i = 7 -> metr[UNMAPPED_READS]

\* The exception assignment i raises on metr, or "none": a subscript of an
\* absent key raises KeyError before the arithmetic is attempted; float
\* arithmetic on a text raises TypeError.
StepError(i, metr) ==
    LET ops == Operands(i) IN
    IF \E j \in 1..Len(ops) : ops[j] \notin DOMAIN metr THEN "KeyError"
    ELSE IF IsArithmetic(i) /\ \E j \in 1..Len(ops) : ~metr[ops[j]].isnum THEN "TypeError"
    ELSE "none"

\* The loop body on one record: the record as the body leaves it and the
\* exception that ended it, if any.
RECURSIVE DeriveFrom(_, _)
DeriveFrom(i, metr) ==
    IF i > Len(DerivedOrder) THEN [rec |-> metr, exc |-> "none"]
    ELSE IF StepError(i, metr) # "none" THEN [rec |-> metr, exc |-> StepError(i, metr)]
    ELSE DeriveFrom(i + 1, Put(metr, DerivedOrder[i], DerivedValue(i, metr)))
DeriveRecord(metr) == DeriveFrom(1, metr)

\* for s_name, metr in data.items(): ...   over the samples in the order
\* given; stops at the first record whose body raises.
RECURSIVE DeriveAll(_, _, _)
DeriveAll(data, order, i) ==
    IF i > Len(order) THEN [data |-> data, exc |-> "none"]
    ELSE LET r == DeriveRecord(data[order[i]])
             d == [data EXCEPT ![order[i]] = r.rec]
         IN IF r.exc # "none" THEN [data |-> d, exc |-> r.exc]
            ELSE DeriveAll(d, order, i + 1)

\* The orders in which a dict of these keys can be iterated.
Orders(S) == {o \in [1..Cardinality(S) -> S] : \A n \in S : \E i \in DOMAIN o : o[i] = n}

\* Variant: every derived field is a category of the bar graph.
keys_r_derived == DerivedOrder

\* keys_r, the categories handed to the bar graph
keys_r == <<READS_IN_UNIQUE_PAIRS, READS_IN_UNIQUE_UNPAIRED, READS_IN_DUPLICATE_PAIRS_OPTICAL,
            READS_IN_DUPLICATE_PAIRS_NONOPTICAL, READS_IN_DUPLICATE_UNPAIRED, READS_UNMAPPED>>

\* --------------------------------------------------- exclusion collaborator
\* ignore_samples: drops the samples whose name matches an ignore pattern,
\* leaving the others as they are.
ignore_samples(data, ign) == [n \in (DOMAIN data) \ ign |-> data[n]]

\* ------------------------------------------------------------------ state
VARIABLES
    pc,                       \* "scan", "filtered", "derive", "plot", "return", "done", "raised"
    nfiles,                   \* files opened so far by the outer loop
    inFile,                   \* the inner loop is reading a file
    f_s_name,                 \* f['s_name'] of the file being read, None when none is read
    nlines,                   \* lines read from the current file
    s_name,                   \* the pending sample name, or None
    picard_dupMetrics_data,   \* sample name -> (field name -> value)
    ignored,                  \* sample names the ignore patterns matched when the filter ran
    data_sources,             \* sample names passed to add_data_source
    data_file,                \* what write_data_file was given
    general_stats_data,       \* the general statistics table
    sections,                 \* report sections added, each with its plot input
    ret,                      \* the value returned (-1 before the return)
    exc,                      \* the exception that left parse_reports, or "none"
    logged,                   \* the messages the last step logged
    \* history of the run, read by the properties only
    lastLine,                 \* the line the last pass on the open file examined: whether it
                              \* is a block-start line, a header line, whether the pass read
                              \* a value row, whether that row was shorter than the header,
                              \* the name it was parsed under, the cells of the header row,
                              \* the cells of the value row that were paired with them, and
                              \* the token that follows INPUT on the line
    armed,                    \* a block-start line was seen in this file since the last parsed block
    lastBlock,                \* per name, the latest metrics block parsed under it: whether it
                              \* passed validation, whether the name had a record before it,
                              \* whether it differs from that record, and its fields
    sawMarker                 \* some line read was a block-start or a header line

vars == <<pc, nfiles, inFile, f_s_name, nlines, s_name, picard_dupMetrics_data, ignored, data_sources,
          data_file, general_stats_data, sections, ret, exc, logged,
          lastLine, armed, lastBlock, sawMarker>>

Msg(level, text, name) == [level |-> level, text |-> text, s_name |-> name]
NoLine == [start |-> FALSE, hdr |-> FALSE, read |-> FALSE, pair |-> FALSE, short |-> FALSE,
           name |-> None, keys |-> <<>>, vals |-> <<>>, inp |-> NoInput]
NoBlock == [parsed |-> FALSE, valid |-> FALSE, over |-> FALSE, changed |-> FALSE,
            rec |-> EmptyDict]

\* self.picard_dupMetrics_data = dict()
Init ==
    /\ pc = "scan"
    /\ nfiles = 0
    /\ inFile = FALSE
    /\ f_s_name = None
    /\ nlines = 0
    /\ s_name = None
    /\ picard_dupMetrics_data = EmptyDict
    /\ ignored = {}
    /\ data_sources = {}
    /\ data_file = EmptyDict
    /\ general_stats_data = EmptyDict
    /\ sections = <<>>
    /\ ret = -1
    /\ exc = "none"
    /\ logged = {}
    /\ lastLine = NoLine
    /\ armed = FALSE
    /\ lastBlock = [n \in Names |-> NoBlock]
    /\ sawMarker = FALSE

\* Variant: the pending name is not set anew when a file is opened.
OpenFile_carried ==
    /\ pc = "scan" /\ ~inFile /\ nfiles < MaxFiles
    /\ \E d \in Names : f_s_name' = d
    /\ inFile' = TRUE
    /\ nfiles' = nfiles + 1
    /\ nlines' = 0
    /\ logged' = {}
    /\ lastLine' = NoLine
    /\ armed' = FALSE
    /\ UNCHANGED <<pc, s_name, picard_dupMetrics_data, ignored, data_sources, data_file,
                   general_stats_data, sections, ret, exc, lastBlock, sawMarker>>

\* for f in self.find_log_files(...):  s_name = f['s_name']
OpenFile ==
    /\ pc = "scan" /\ ~inFile /\ nfiles < MaxFiles
    /\ \E d \in Names : f_s_name' = d /\ s_name' = d
    /\ inFile' = TRUE
    /\ nfiles' = nfiles + 1
    /\ nlines' = 0
    /\ logged' = {}
    /\ lastLine' = NoLine
    /\ armed' = FALSE
    /\ UNCHANGED <<pc, picard_dupMetrics_data, ignored, data_sources, data_file,
                   general_stats_data, sections, ret, exc, lastBlock, sawMarker>>

\* Variant: the pending name is kept once the pair is processed.
AfterPair_kept(name) == name

\* s_name = None, the last statement of the branch that parses a pair
AfterPair(name) == None

\* Variant: the duplicate-name message is logged for every block parsed.
LogDuplicate_always(dup, name) == {Msg("debug", "duplicate", name)}

\* if s_name in self.picard_dupMetrics_data: log.debug("Duplicate sample name
\* found in {}! Overwriting: {}")
LogDuplicate(dup, name) == {Msg("debug", "duplicate", name) : x \in {y \in {1} : dup}}

\* Variant: a block-start line without an INPUT token leaves the pending
\* name as it is.
AfterStart_stale(l, cur) ==
    IF IsStart(l) /\ l.inp # NoInput THEN clean_s_name(l.inp) ELSE cur

\* The pending name after the block-start test of the loop body.
AfterStart(l, cur) ==
    IF IsStart(l)
    THEN IF l.inp # NoInput THEN clean_s_name(l.inp) ELSE None
    ELSE cur

\* Variant: the test of the pending name is left out.
Parses_unguarded(l, cur) == IsHeader(l)

\* Variant: the name is bound to the fresh record and the fields are not
\* stored in it.
StoreBlock_cleared(data, name, rec) == Put(data, name, EmptyDict)

\* Variant: the fields are stored in the record the name already has.
StoreBlock_merge(data, name, rec) ==
    Put(data, name, [k \in (DOMAIN Get(data, name, EmptyDict)) \cup (DOMAIN rec) |->
                        IF k \in DOMAIN rec THEN rec[k] ELSE data[name][k]])

\* if s_name is not None: if 'UNPAIRED_READ_DUPLICATES' in l:
\* whether the pass on line l, entered with pending name cur, parses a block.
Parses(l, cur) == AfterStart(l, cur) # None /\ IsHeader(l)

\* data[s_name] = dict(), then the fields are stored in the fresh dict.
StoreBlock(data, name, rec) == Put(data, name, rec)

\* One pass of  for l in f['f']  on a line that starts no parse: the pending
\* name is None after the block-start test, or the line has no header marker.
SkipLine(l) ==
    /\ s_name' = AfterStart(l, s_name)
    /\ nlines' = nlines + 1
    /\ armed' = (armed \/ IsStart(l))
    /\ logged' = {}
    /\ lastLine' = [start |-> IsStart(l), hdr |-> IsHeader(l), read |-> TRUE,
                    pair |-> FALSE, short |-> FALSE, name |-> None,
                    keys |-> <<>>, vals |-> <<>>, inp |-> l.inp]
    /\ UNCHANGED <<pc, exc, picard_dupMetrics_data, data_sources, lastBlock>>

\* One pass on a header row l under a pending name; nxt is the line that
\* readline() returns, consumed as the value row.
ParseBlock(l, nxt) ==
    \E name \in {AfterStart(l, s_name)}, row \in {ParseRow(l.cells, nxt.cells)} :
    \E dup \in {name \in DOMAIN picard_dupMetrics_data}, noreads \in {NoReads(row.rec)} :
    \E valid \in {~row.err /\ ~noreads} :
    /\ nlines' = nlines + 2
    /\ armed' = FALSE
    /\ data_sources' = data_sources \cup {name}
    /\ lastLine' = [start |-> IsStart(l), hdr |-> IsHeader(l), read |-> TRUE,
                    pair |-> TRUE, short |-> Len(nxt.cells) < Len(l.cells), name |-> name,
                    keys |-> l.cells,
                    vals |-> IF Len(nxt.cells) > Len(l.cells)
                             THEN SubSeq(nxt.cells, 1, Len(l.cells)) ELSE nxt.cells,
                    inp |-> l.inp]
    /\ lastBlock' = [lastBlock EXCEPT ![name] =
          [parsed |-> TRUE, valid |-> valid, over |-> dup,
           changed |-> dup /\ valid /\ row.rec # picard_dupMetrics_data[name],
           rec |-> IF valid THEN row.rec ELSE EmptyDict]]
    /\ logged' = LogDuplicate(dup, name)
                 \cup {Msg("warn", "no reads", name) : x \in {y \in {1} : ~row.err /\ noreads}}
    /\ IF row.err
       THEN /\ pc' = "raised"
            /\ exc' = "IndexError"
            /\ s_name' = name
            /\ picard_dupMetrics_data' = StoreBlock(picard_dupMetrics_data, name, row.rec)
       ELSE /\ s_name' = AfterPair(name)
            /\ picard_dupMetrics_data' =
                  IF noreads THEN Pop(StoreBlock(picard_dupMetrics_data, name, row.rec), name)
                  ELSE StoreBlock(picard_dupMetrics_data, name, row.rec)
            /\ UNCHANGED <<pc, exc>>

Scan ==
    /\ pc = "scan" /\ inFile /\ nlines < MaxLines
    /\ \E l \in Lines :
          /\ sawMarker' = (sawMarker \/ IsStart(l) \/ IsHeader(l))
          /\ IF Parses(l, s_name)
             THEN \E nxt \in NextLines : ParseBlock(l, nxt)
             ELSE SkipLine(l)
    /\ UNCHANGED <<nfiles, inFile, f_s_name, ignored, data_file, general_stats_data, sections, ret>>

\* The inner loop ends; records left with no field are removed.  The loop
\* variable of the clean-up is s_name: it is left at the last key visited.
EndOfFile ==
    LET empty == {n \in DOMAIN picard_dupMetrics_data : DOMAIN picard_dupMetrics_data[n] = {}} IN
    /\ pc = "scan" /\ inFile
    /\ inFile' = FALSE
    /\ f_s_name' = None
    /\ picard_dupMetrics_data' =
          [n \in (DOMAIN picard_dupMetrics_data) \ empty |-> picard_dupMetrics_data[n]]
    /\ logged' = {Msg("debug", "no data parsed", n) : n \in empty}
    /\ IF DOMAIN picard_dupMetrics_data = {}
       THEN s_name' = s_name
       ELSE \E n \in DOMAIN picard_dupMetrics_data : s_name' = n
    /\ lastLine' = NoLine
    /\ armed' = FALSE
    /\ UNCHANGED <<pc, nfiles, nlines, ignored, data_sources, data_file, general_stats_data,
                   sections, ret, exc, lastBlock, sawMarker>>

\* Variant: the result of the exclusion filter is not assigned back.
Filter_unassigned ==
    /\ pc = "scan" /\ ~inFile
    /\ \E ign \in SUBSET Names : ignored' = ign
    /\ pc' = "filtered"
    /\ logged' = {}
    /\ UNCHANGED <<nfiles, inFile, f_s_name, nlines, s_name, picard_dupMetrics_data, data_sources,
                   data_file, general_stats_data, sections, ret, exc, lastLine, armed,
                   lastBlock, sawMarker>>

\* self.picard_dupMetrics_data = self.ignore_samples(self.picard_dupMetrics_data)
Filter ==
    /\ pc = "scan" /\ ~inFile
    /\ \E ign \in SUBSET Names :
          /\ ignored' = ign
          /\ picard_dupMetrics_data' = ignore_samples(picard_dupMetrics_data, ign)
    /\ pc' = "filtered"
    /\ logged' = {}
    /\ UNCHANGED <<nfiles, inFile, f_s_name, nlines, s_name, data_sources, data_file,
                   general_stats_data, sections, ret, exc, lastLine, armed, lastBlock, sawMarker>>

\* Variant: the derived fields are computed before the data file is written.
Report_enriched ==
    /\ pc = "filtered"
    /\ logged' = {}
    /\ IF DOMAIN picard_dupMetrics_data # {}
       THEN /\ \E order \in Orders(DOMAIN picard_dupMetrics_data) :
                  data_file' = DeriveAll(picard_dupMetrics_data, order, 1).data
            /\ general_stats_data' =
                  [n \in (DOMAIN general_stats_data) \cup (DOMAIN picard_dupMetrics_data) |->
                      IF n \in DOMAIN picard_dupMetrics_data
                      THEN [k \in (DOMAIN Get(general_stats_data, n, EmptyDict))
                                   \cup (DOMAIN picard_dupMetrics_data[n]) |->
                               IF k \in DOMAIN picard_dupMetrics_data[n]
                               THEN picard_dupMetrics_data[n][k]
                               ELSE general_stats_data[n][k]]
                      ELSE general_stats_data[n]]
            /\ \E n \in DOMAIN picard_dupMetrics_data : s_name' = n
            /\ pc' = "derive"
       ELSE /\ pc' = "return"
            /\ UNCHANGED <<data_file, general_stats_data, s_name>>
    /\ UNCHANGED <<nfiles, inFile, f_s_name, nlines, picard_dupMetrics_data, ignored, data_sources,
                   sections, ret, exc, lastLine, armed, lastBlock, sawMarker>>

\* if len(data) > 0: write_data_file(data, ...); general statistics, whose
\* loop leaves its variable s_name at the last key visited.
Report ==
    /\ pc = "filtered"
    /\ logged' = {}
    /\ IF DOMAIN picard_dupMetrics_data # {}
       THEN /\ data_file' = picard_dupMetrics_data
            /\ general_stats_data' =
                  [n \in (DOMAIN general_stats_data) \cup (DOMAIN picard_dupMetrics_data) |->
                      IF n \in DOMAIN picard_dupMetrics_data
                      THEN [k \in (DOMAIN Get(general_stats_data, n, EmptyDict))
                                   \cup (DOMAIN picard_dupMetrics_data[n]) |->
                               IF k \in DOMAIN picard_dupMetrics_data[n]
                               THEN picard_dupMetrics_data[n][k]
                               ELSE general_stats_data[n][k]]
                      ELSE general_stats_data[n]]
            /\ \E n \in DOMAIN picard_dupMetrics_data : s_name' = n
            /\ pc' = "derive"
       ELSE /\ pc' = "return"
            /\ UNCHANGED <<data_file, general_stats_data, s_name>>
    /\ UNCHANGED <<nfiles, inFile, f_s_name, nlines, picard_dupMetrics_data, ignored, data_sources,
                   sections, ret, exc, lastLine, armed, lastBlock, sawMarker>>

\* for s_name, metr in self.picard_dupMetrics_data.items(): the derived fields
Derive ==
    /\ pc = "derive"
    /\ \E order \in Orders(DOMAIN picard_dupMetrics_data) :
          LET r == DeriveAll(picard_dupMetrics_data, order, 1) IN
          /\ picard_dupMetrics_data' = r.data
          /\ exc' = r.exc
          /\ pc' = IF r.exc = "none" THEN "plot" ELSE "raised"
          /\ s_name' = IF r.exc = "none" THEN order[Len(order)]
                       ELSE CHOOSE n \in DOMAIN r.data : TRUE
    /\ logged' = {}
    /\ UNCHANGED <<nfiles, inFile, f_s_name, nlines, ignored, data_sources, data_file, general_stats_data,
                   sections, ret, lastLine, armed, lastBlock, sawMarker>>

\* self.add_section(..., plot = bargraph.plot(data, keys, pconfig))
AddSection ==
    /\ pc = "plot"
    /\ sections' = Append(sections, [cats |-> keys_r, data |-> picard_dupMetrics_data])
    /\ pc' = "return"
    /\ logged' = {}
    /\ UNCHANGED <<nfiles, inFile, f_s_name, nlines, s_name, picard_dupMetrics_data, ignored, data_sources,
                   data_file, general_stats_data, ret, exc, lastLine, armed, lastBlock, sawMarker>>

\* Variant: the samples for which a data source was recorded are counted.
ReturnValue_sources(data) == Cardinality(data_sources)

\* return len(self.picard_dupMetrics_data)
ReturnValue(data) == Cardinality(DOMAIN data)

Return ==
    /\ pc = "return"
    /\ ret' = ReturnValue(picard_dupMetrics_data)
    /\ pc' = "done"
    /\ logged' = {}
    /\ UNCHANGED <<nfiles, inFile, f_s_name, nlines, s_name, picard_dupMetrics_data, ignored, data_sources,
                   data_file, general_stats_data, sections, exc, lastLine, armed, lastBlock,
                   sawMarker>>

Next == OpenFile \/ Scan \/ EndOfFile \/ Filter \/ Report \/ Derive \/ AddSection \/ Return

Spec == Init /\ [][Next]_vars

\* ================================================================ properties
Data == picard_dupMetrics_data
ZeroOrAbsent(d, k) == k \notin DOMAIN d \/ (d[k].isnum /\ d[k].n = 0)
\* The fields of a record other than the seven derived ones.
RawPart(d) == [k \in (DOMAIN d) \ DerivedNames |-> d[k]]
\* The step is a pass of the line loop.
ScanStep == pc = "scan" /\ inFile /\ inFile' /\ nlines' > nlines

\* C1: once parse_reports has got past the scan without an IndexError, and
\* in particular when it has returned, no record of the collection has
\* READ_PAIRS_EXAMINED zero or absent and UNPAIRED_READS_EXAMINED zero or
\* absent.
C1_NoZeroReadRecord ==
    exc # "IndexError" =>
        \A n \in DOMAIN Data :
            ~(ZeroOrAbsent(Data[n], READ_PAIRS_EXAMINED)
              /\ ZeroOrAbsent(Data[n], UNPAIRED_READS_EXAMINED))

\* C1 witness: the call returned, a block without reads was the latest one
\* parsed under some name, and another sample is in the final collection.
C1_Witness ==
    /\ pc = "done"
    /\ \E n \in Names : lastBlock[n].parsed /\ ~lastBlock[n].valid /\ n \notin DOMAIN Data
    /\ DOMAIN Data # {}

\* C2 (as claimed): no exception leaves parse_reports.
C2_NeverRaises == exc = "none"

\* C3: when the latest block parsed under a name passed validation and the
\* name already had a record, the collection holds that name (unless the
\* exclusion filter removed it) with exactly the fields of the latest block:
\* no field of the earlier record is left.
C3_LastWriteWins ==
    \A n \in Names :
        (lastBlock[n].valid /\ lastBlock[n].over /\ n \notin ignored) =>
            /\ n \in DOMAIN Data
            /\ RawPart(Data[n]) = lastBlock[n].rec

\* C3 witness: the call returned with a sample whose latest block replaced
\* an earlier record that held other values.
C3_Witness ==
    /\ pc = "done"
    /\ \E n \in DOMAIN Data :
          lastBlock[n].valid /\ lastBlock[n].over /\ lastBlock[n].changed

\* C4 (as claimed): in a step that does not raise, a record of the
\* collection stays as it is unless a later validated block of the same name
\* overwrites it or the exclusion filter removes it.
C4_ValidRecordPersists ==
    [][exc' = "none" =>
        \A n \in DOMAIN Data :
            \/ n \in DOMAIN Data' /\ RawPart(Data'[n]) = RawPart(Data[n])
            \/ /\ ScanStep /\ lastLine'.name = n /\ lastBlock'[n].valid
               /\ n \in DOMAIN Data' /\ Data'[n] = lastBlock'[n].rec
            \/ pc = "scan" /\ pc' = "filtered" /\ n \in ignored']_vars

\* C5 (as claimed): a header line read when no block-start line was seen in
\* this file since the last parsed block creates or overwrites no record and
\* the line after it is not consumed.
C5_IdleHeaderIgnored ==
    [][(ScanStep /\ lastLine'.hdr /\ ~lastLine'.start /\ ~armed) =>
          (Data' = Data /\ nlines' = nlines + 1)]_vars

\* C5 (amended): a header line that is no block-start line, read while the
\* pending sample name is unset, creates or overwrites no record and the
\* line after it is not consumed; read while the pending name is set (as it
\* is at the first line of a file) it is parsed with the line after it.
C5_UnsetNameHeaderIgnored ==
    [][(ScanStep /\ lastLine'.hdr /\ ~lastLine'.start) =>
          /\ s_name = None => (Data' = Data /\ data_sources' = data_sources
                               /\ nlines' = nlines + 1)
          /\ s_name # None => (nlines' = nlines + 2 /\ s_name \in data_sources')]_vars

\* C5 witness: a header line was passed over while the collection held a
\* record.
C5_Witness ==
    /\ lastLine.read /\ lastLine.hdr /\ ~lastLine.start /\ ~lastLine.pair
    /\ DOMAIN Data # {}

\* ------------------------------------------------- the derived arithmetic
\* The calculator on its own: parse_reports at the head of the derived-fields
\* loop with one validated sample whose six raw fields hold any counts up to
\* MaxCount, or the counts of the documented example.
MaxCount == 2
RawRecord(rpd, rpe, ure, urd, rpod, unm) ==
    [k \in RawNames |->
        CASE k = READ_PAIR_DUPLICATES -> Num(rpd)
          [] k = READ_PAIRS_EXAMINED -> Num(rpe)
          [] k = UNPAIRED_READS_EXAMINED -> Num(ure)
          [] k = UNPAIRED_READ_DUPLICATES -> Num(urd)
          [] k = READ_PAIR_OPTICAL_DUPLICATES -> Num(rpod)
          [] k = UNMAPPED_READS -> Num(unm)]
ExampleRecord == RawRecord(10, 100, 0, 0, 2, 5)
CountRecords ==
    {RawRecord(c[1], c[2], c[3], c[4], c[5], c[6]) :
        c \in {x \in [1..6 -> 0..MaxCount] : x[2] + x[3] > 0}}

InitDerive ==
    \E rec \in CountRecords \cup {ExampleRecord} :
        /\ pc = "derive"
        /\ nfiles = 1
        /\ inFile = FALSE
        /\ f_s_name = None
        /\ nlines = 2
        /\ s_name = "A"
        /\ picard_dupMetrics_data = [n \in {"A"} |-> rec]
        /\ ignored = {}
        /\ data_sources = {"A"}
        /\ data_file = [n \in {"A"} |-> rec]
        /\ general_stats_data = [n \in {"A"} |-> rec]
        /\ sections = <<>>
        /\ ret = -1
        /\ exc = "none"
        /\ logged = {}
        /\ lastLine = NoLine
        /\ armed = FALSE
        /\ lastBlock = [n \in Names |->
              IF n = "A"
              THEN [parsed |-> TRUE, valid |-> TRUE, over |-> FALSE, changed |-> FALSE, rec |-> rec]
              ELSE NoBlock]
        /\ sawMarker = TRUE

NextDerive == Derive \/ AddSection \/ Return

SpecDerive == InitDerive /\ [][NextDerive]_vars

\* C6: once the derived-fields loop has run, every record whose six raw
\* fields are numeric holds the seven derived fields with the documented
\* values; the documented example 10/100/0/0/2/5 gives 20/180/0/4/16/0/5.
C6_DerivedFormulas ==
    pc \in {"plot", "return", "done"} =>
        \A n \in DOMAIN Data :
            LET m == Data[n] IN
            (\A k \in RawNames : k \in DOMAIN m /\ m[k].isnum) =>
                /\ DerivedNames \subseteq DOMAIN m
                /\ \A k \in DerivedNames : m[k].isnum
                /\ m[READS_IN_DUPLICATE_PAIRS].n = 2 * m[READ_PAIR_DUPLICATES].n
                /\ m[READS_IN_UNIQUE_PAIRS].n =
                      2 * (m[READ_PAIRS_EXAMINED].n - m[READ_PAIR_DUPLICATES].n)
                /\ m[READS_IN_UNIQUE_UNPAIRED].n =
                      m[UNPAIRED_READS_EXAMINED].n - m[UNPAIRED_READ_DUPLICATES].n
                /\ m[READS_IN_DUPLICATE_PAIRS_OPTICAL].n = 2 * m[READ_PAIR_OPTICAL_DUPLICATES].n
                /\ m[READS_IN_DUPLICATE_PAIRS_NONOPTICAL].n =
                      m[READS_IN_DUPLICATE_PAIRS].n - m[READS_IN_DUPLICATE_PAIRS_OPTICAL].n
                /\ m[READS_IN_DUPLICATE_UNPAIRED].n = m[UNPAIRED_READ_DUPLICATES].n
                /\ m[READS_UNMAPPED].n = m[UNMAPPED_READS].n
                /\ RawPart(m) = ExampleRecord =>
                      /\ m[READS_IN_DUPLICATE_PAIRS].n = 20
                      /\ m[READS_IN_UNIQUE_PAIRS].n = 180
                      /\ m[READS_IN_UNIQUE_UNPAIRED].n = 0
                      /\ m[READS_IN_DUPLICATE_PAIRS_OPTICAL].n = 4
                      /\ m[READS_IN_DUPLICATE_PAIRS_NONOPTICAL].n = 16
                      /\ m[READS_IN_DUPLICATE_UNPAIRED].n = 0
                      /\ m[READS_UNMAPPED].n = 5

\* C6 witness: the call returned with the record of the documented example,
\* its derived fields computed.
C6_Witness ==
    /\ pc = "done"
    /\ "A" \in DOMAIN Data
    /\ RawPart(Data["A"]) = ExampleRecord
    /\ READS_IN_UNIQUE_PAIRS \in DOMAIN Data["A"]

\* The six raw fields the derived metrics read are present and numeric.
Complete(m) == \A k \in RawNames : k \in DOMAIN m /\ m[k].isnum

\* C7 (as claimed): the derived-fields loop always completes; a record that
\* lacks a raw field or holds it as text keeps its fields and gets no
\* derived field, with a warning naming the sample, and every other record
\* gets its derived fields.
C7_MissingInputIsSoft ==
    [][pc = "derive" =>
          /\ pc' = "plot"
          /\ \A n \in DOMAIN Data :
                IF Complete(Data[n])
                THEN n \in DOMAIN Data' /\ DerivedNames \subseteq DOMAIN Data'[n]
                ELSE /\ n \in DOMAIN Data' /\ Data'[n] = Data[n]
                     /\ \E m \in logged' : m.level = "warn" /\ m.s_name = n]_vars

\* C8 (as claimed): a pass that reads a value row shorter than its header
\* leaves no record under the name, logs a warning and goes on scanning.
C8_ShortRowDropsSample ==
    [][(ScanStep /\ lastLine'.pair /\ lastLine'.short) =>
          /\ pc' = "scan" /\ exc' = "none"
          /\ lastLine'.name \notin DOMAIN Data'
          /\ \E m \in logged' : m.level = "warn" /\ m.s_name = lastLine'.name]_vars

\* C9 (as claimed): when parse_reports has returned, what the data writer
\* was given equals the collection left behind, derived fields included.
C9_PersistedIsFinal == pc = "done" => data_file = Data

\* C9 (amended): what the data writer was given is the filtered collection
\* as parsed: each persisted record holds exactly the fields of the latest
\* block of its sample and no derived field; the record left behind agrees
\* with it on those fields and, once the derived-fields loop has run, holds
\* the seven derived fields besides.
C9_PersistedIsParsed ==
    data_file # EmptyDict =>
        /\ DOMAIN data_file = DOMAIN Data
        /\ \A n \in DOMAIN data_file :
              /\ data_file[n] = lastBlock[n].rec
              /\ DerivedNames \cap DOMAIN data_file[n] = {}
              /\ RawPart(Data[n]) = data_file[n]
              /\ pc \in {"plot", "return", "done"} =>
                    DOMAIN Data[n] = (DOMAIN data_file[n]) \cup DerivedNames

\* C9 witness: the call returned, a data file was written, and a record
\* left behind holds a derived field that the persisted record lacks.
C9_Witness ==
    /\ pc = "done"
    /\ \E n \in DOMAIN data_file :
          READS_UNMAPPED \in DOMAIN Data[n] /\ READS_UNMAPPED \notin DOMAIN data_file[n]

\* C10: the value returned is the size of the collection left behind, which
\* is the number of samples whose latest block passed validation and which
\* the exclusion filter kept; when no line read was a block-start or header
\* line, it is 0, the collection is empty, no data file was written and no
\* section was added.
C10_ReturnIsFinalCount ==
    pc = "done" =>
        /\ ret = Cardinality(DOMAIN Data)
        /\ ret = Cardinality({n \in Names : lastBlock[n].valid} \ ignored)
        /\ ~sawMarker =>
              ret = 0 /\ Data = EmptyDict /\ data_file = EmptyDict /\ sections = <<>>

\* C10 witness: the call returned a positive count although the exclusion
\* filter removed a validated sample.
C10_Witness ==
    /\ pc = "done"
    /\ ret > 0
    /\ \E n \in ignored : lastBlock[n].valid


C12_FilterFrame ==
    (pc \in {"filtered", "derive", "plot", "return", "done"}
       \/ (pc = "raised" /\ exc # "IndexError")) =>
        /\ \A n \in ignored :
              /\ n \notin DOMAIN Data
              /\ n \notin DOMAIN data_file
              /\ n \notin DOMAIN general_stats_data
              /\ \A i \in 1..Len(sections) : n \notin DOMAIN sections[i].data
        /\ pc = "done" => ret = Cardinality(Names \ ignored)
                                  - Cardinality({n \in Names \ ignored : ~lastBlock[n].valid})
        /\ \A n \in Names \ ignored :
              lastBlock[n].valid =>
                  /\ n \in DOMAIN Data
                  /\ \A k \in DOMAIN lastBlock[n].rec :
                        k \in DOMAIN Data[n] /\ Data[n][k] = lastBlock[n].rec[k]
                  /\ (DOMAIN Data[n]) \ (DOMAIN lastBlock[n].rec) \subseteq DerivedNames
                  /\ pc # "filtered" => n \in DOMAIN general_stats_data
                  /\ \A i \in 1..Len(sections) : n \in DOMAIN sections[i].data
        /\ DOMAIN Data \subseteq {n \in Names : lastBlock[n].valid}

\* C12 witness: the call returned after the filter removed one validated
\* sample and kept another, which was plotted with its derived fields.
C12_Witness ==
    /\ pc = "done"
    /\ \E n \in ignored : lastBlock[n].valid
    /\ \E n \in DOMAIN Data : DerivedNames \subseteq DOMAIN Data[n]
    /\ Len(sections) = 1 /\ DOMAIN sections[1].data = DOMAIN Data


\* ----------------------------------------------------- the table parser
\* The parser on its own: parse_reports at the first line of a file, the
\* pending name set, reading a header row of up to MaxCols distinct column
\* names in any order, the marker column among them, and a value row of that
\* length or one cell longer.
MaxCols == 3
ParseNames == <<UNPAIRED_READ_DUPLICATES, READ_PAIRS_EXAMINED, READ_PAIR_DUPLICATES,
                UNMAPPED_READS, UNPAIRED_READS_EXAMINED, READ_PAIR_OPTICAL_DUPLICATES>>
ParseHeaders ==
    {h \in UNION {[1..n -> {ParseNames[i] : i \in 1..MaxCols}] : n \in 1..MaxCols} :
        /\ \A i, j \in 1..Len(h) : h[i] = h[j] => i = j
        /\ \E i \in 1..Len(h) : h[i] = UNPAIRED_READ_DUPLICATES}
ParseCells == {"0", "1", "n/a"}
ParseRows(n) == [1..n -> ParseCells] \cup {r \o <<"1">> : r \in [1..n -> ParseCells]}

InitParse ==
    /\ pc = "scan"
    /\ nfiles = 1
    /\ inFile = TRUE
    /\ nlines = 0
    /\ s_name \in Names
    /\ f_s_name = s_name
    /\ picard_dupMetrics_data = EmptyDict
    /\ ignored = {}
    /\ data_sources = {}
    /\ data_file = EmptyDict
    /\ general_stats_data = EmptyDict
    /\ sections = <<>>
    /\ ret = -1
    /\ exc = "none"
    /\ logged = {}
    /\ lastLine = NoLine
    /\ armed = FALSE
    /\ lastBlock = [n \in Names |-> NoBlock]
    /\ sawMarker = FALSE

\* A pass of the line loop over a header row, which reads the value row.
ScanPair ==
    /\ pc = "scan" /\ inFile /\ nlines < MaxLines
    /\ \E keys \in ParseHeaders :
       \E vals \in ParseRows(Len(keys)) :
       \E l \in {[start |-> FALSE, inp |-> NoInput, cells |-> keys]} :
          /\ Parses(l, s_name)
          /\ ParseBlock(l, [start |-> FALSE, inp |-> NoInput, cells |-> vals])
    /\ sawMarker' = TRUE
    /\ UNCHANGED <<nfiles, inFile, f_s_name, ignored, data_file, general_stats_data, sections, ret>>

NextParse == ScanPair

SpecParse == InitParse /\ [][NextParse]_vars

\* The permutations of 1..n, and a row rearranged by one.
Perms(n) == {p \in [1..n -> 1..n] : \A i, j \in 1..n : p[i] = p[j] => i = j}
Permute(row, p) == [i \in 1..Len(row) |-> row[p[i]]]

\* C13: a pass that parses a header row of distinct names with a value row
\* at least as long, under a set name, and whose record passes validation,
\* leaves under that name a record whose keys are exactly the header names,
\* each bound to the cell at its own position, as a number when float()
\* accepts the cell and as the cell's text otherwise; parsing both rows
\* rearranged by any one permutation gives the same record.
C13_PositionalParse ==
    [][(ScanStep /\ lastLine'.pair /\ ~lastLine'.short /\ lastBlock'[lastLine'.name].valid) =>
          LET keys == lastLine'.keys
              vals == lastLine'.vals
              n == lastLine'.name
          IN  /\ s_name = n
              /\ n \in DOMAIN Data'
              /\ DOMAIN Data'[n] = {keys[i] : i \in 1..Len(keys)}
              /\ \A i \in 1..Len(keys) :
                    /\ Data'[n][keys[i]].isnum = IsFloat(vals[i])
                    /\ IsFloat(vals[i]) => Data'[n][keys[i]].n = float(vals[i])
                    /\ ~IsFloat(vals[i]) => Data'[n][keys[i]].s = vals[i]
              /\ \A p \in Perms(Len(keys)) :
                    ParseRow(Permute(keys, p), Permute(vals, p)).rec = Data'[n]]_vars

\* C13 witness: the last pass parsed a header of three columns whose marker
\* column is not the first, the record was kept, and it holds a number and a
\* text.
C13_Witness ==
    /\ lastLine.pair /\ ~lastLine.short
    /\ Len(lastLine.keys) >= 3
    /\ lastLine.keys[1] # UNPAIRED_READ_DUPLICATES
    /\ lastLine.name \in DOMAIN Data
    /\ \E k \in DOMAIN Data[lastLine.name] : Data[lastLine.name][k].isnum
    /\ \E k \in DOMAIN Data[lastLine.name] : ~Data[lastLine.name][k].isnum


\* C14 (as claimed): the categories of every plot are the seven derived
\* fields in the order the derived-fields loop assigns them, and every
\* sample plotted holds them.
C14_ChartKeysAreDerivedOrder ==
    \A i \in 1..Len(sections) :
        /\ sections[i].cats = DerivedOrder
        /\ \A n \in DOMAIN sections[i].data :
              \A j \in 1..Len(sections[i].cats) : sections[i].cats[j] \in DOMAIN sections[i].data[n]

\* C14 (amended): at most one plot is made; its categories are six of the
\* seven derived fields, in the order READS_IN_UNIQUE_PAIRS,
\* READS_IN_UNIQUE_UNPAIRED, READS_IN_DUPLICATE_PAIRS_OPTICAL,
\* READS_IN_DUPLICATE_PAIRS_NONOPTICAL, READS_IN_DUPLICATE_UNPAIRED,
\* READS_UNMAPPED: READS_IN_DUPLICATE_PAIRS is no category.  The samples
\* plotted are the samples of the final collection and each holds the six
\* categories.
C14_ChartKeysAreSixCategories ==
    /\ Len(sections) <= 1
    /\ \A i \in 1..Len(sections) :
          /\ sections[i].cats =
                <<"READS_IN_UNIQUE_PAIRS", "READS_IN_UNIQUE_UNPAIRED",
                  "READS_IN_DUPLICATE_PAIRS_OPTICAL", "READS_IN_DUPLICATE_PAIRS_NONOPTICAL",
                  "READS_IN_DUPLICATE_UNPAIRED", "READS_UNMAPPED">>
          /\ \A j \in 1..Len(sections[i].cats) :
                sections[i].cats[j] \in DerivedNames \ {READS_IN_DUPLICATE_PAIRS}
          /\ sections[i].data = Data
          /\ \A n \in DOMAIN sections[i].data :
                \A j \in 1..Len(sections[i].cats) :
                    sections[i].cats[j] \in DOMAIN sections[i].data[n]

\* C14 witness: the call returned after plotting two samples.
C14_Witness ==
    /\ pc = "done"
    /\ Len(sections) = 1
    /\ Cardinality(DOMAIN sections[1].data) = 2


\* C15: a pass that parses a header row consumes exactly that row and the
\* line after it and, whether the record is kept or dropped for holding no
\* reads, leaves the pending name unset even when the line after is a
\* block-start line with an INPUT token; and while the pending name is unset
\* a pass over a line that is no block-start line parses nothing, changes
\* no record and leaves the name unset.  So between two parsed blocks of a
\* file a block-start line is read.
C15_OneBlockPerStart ==
    [][ScanStep =>
          /\ (lastLine'.pair /\ exc' = "none") =>
                (s_name' = None /\ nlines' = nlines + 2 /\ ~armed')
          /\ (s_name = None /\ ~lastLine'.start) =>
                (~lastLine'.pair /\ s_name' = None /\ nlines' = nlines + 1
                 /\ Data' = Data /\ data_sources' = data_sources)]_vars

\* C15 witness: in the first file a block was parsed and kept, and the pass
\* after it skipped a header line, the pending name being unset.
C15_Witness ==
    /\ nfiles = 1 /\ inFile /\ nlines = 3
    /\ DOMAIN Data # {}
    /\ lastLine.read /\ lastLine.hdr /\ ~lastLine.start /\ ~lastLine.pair
    /\ s_name = None


\* C16: a pass over a block-start line without an INPUT token leaves the
\* pending name unset, parses nothing and changes no record, whatever the
\* name was before; a pass over a block-start line with an INPUT token uses
\* the name made from that token, to parse with or to leave pending; a pass
\* over any other line parses under the pending name or leaves it as it is,
\* and parses nothing while it is unset.  So a header row is recorded under
\* the name of the latest block-start line read, never under an earlier one.
C16_StartClearsName ==
    [][ScanStep =>
          LET used == IF lastLine'.pair THEN lastLine'.name ELSE s_name' IN
          /\ (lastLine'.start /\ lastLine'.inp = NoInput) =>
                (s_name' = None /\ ~lastLine'.pair /\ nlines' = nlines + 1
                 /\ Data' = Data /\ data_sources' = data_sources)
          /\ (lastLine'.start /\ lastLine'.inp # NoInput) =>
                used = clean_s_name(lastLine'.inp)
          /\ ~lastLine'.start => used = s_name
          /\ lastLine'.pair => (lastLine'.name # None /\ lastLine'.name \in data_sources')]_vars

\* C16 witness: a block-start line without an INPUT token was read in this
\* file, no block was parsed since, and the last pass skipped a header line
\* while a record parsed earlier is held.
C16_Witness ==
    /\ inFile /\ armed /\ s_name = None
    /\ lastLine.read /\ lastLine.hdr /\ ~lastLine.start /\ ~lastLine.pair
    /\ DOMAIN Data # {}


\* C17 (as claimed): no record of the collection that lacks one of the six
\* raw fields the derived metrics read holds a derived field, and once the
\* plot was made every record of the collection holds the seven.
C17_DerivedOnceWhenComplete ==
    /\ \A n \in DOMAIN Data :
          (\E k \in RawNames : k \notin DOMAIN Data[n]) =>
              DerivedNames \cap DOMAIN Data[n] = {}
    /\ (pc \in {"plot", "return", "done"} /\ sections # <<>>) =>
          \A n \in DOMAIN Data : DerivedNames \subseteq DOMAIN Data[n]


\* C18 (as claimed): every record of the collection whose block passed
\* validation holds both READ_PAIRS_EXAMINED and UNPAIRED_READS_EXAMINED as
\* keys, and not both are zero.
C18_ExaminedFieldsPresent ==
    \A n \in DOMAIN Data :
        lastBlock[n].valid =>
            /\ READ_PAIRS_EXAMINED \in DOMAIN Data[n]
            /\ UNPAIRED_READS_EXAMINED \in DOMAIN Data[n]
            /\ ~(IsZero(Data[n][READ_PAIRS_EXAMINED])
                  /\ IsZero(Data[n][UNPAIRED_READS_EXAMINED]))


\* C19: no sample of the collection ever maps to a record without fields:
\* not after the end-of-file processing of a file, not in the final
\* collection, and not while a file is being read either, so that the
\* end-of-file processing finds nothing to remove.
C19_NoEmptyRecord ==
    /\ \A n \in DOMAIN Data : DOMAIN Data[n] # {}
    /\ \A m \in logged : m.text # "no data parsed"

\* C19 witness: the end-of-file processing of the second file is done, a
\* block without reads was the latest parsed under one name and the record
\* of another name is held.
C19_Witness ==
    /\ pc = "scan" /\ ~inFile /\ nfiles = 2
    /\ \E n \in Names : lastBlock[n].parsed /\ ~lastBlock[n].valid
    /\ \E n \in DOMAIN Data : lastBlock[n].valid


\* C20: when a file is opened the pending name becomes that file's default
\* name, whatever a block-start line of an earlier file or the end-of-file
\* clean-up left in it; it is that name at the first line of the file; and
\* a header row parsed when no block-start line of the file was read before
\* it is recorded under the file's default name.  With C16, the name a
\* header row is recorded under always comes from the file it is read in.
C20_NoLeakAcrossFiles ==
    [][/\ (~inFile /\ inFile') =>
             (s_name' = f_s_name' /\ f_s_name' \in Names /\ nlines' = 0 /\ ~armed')
       /\ (ScanStep /\ nlines = 0) => s_name = f_s_name
       /\ (ScanStep /\ lastLine'.pair /\ ~lastLine'.start /\ ~armed) =>
             (lastLine'.name = f_s_name /\ f_s_name \in data_sources')]_vars

\* C20 witness: the first two lines of the second file were parsed as a
\* block under that file's default name while the collection holds a record
\* under another name, which the clean-up after the first file left in the
\* pending name.
C20_Witness ==
    /\ nfiles = 2 /\ inFile /\ nlines = 2
    /\ lastLine.pair /\ ~lastLine.start
    /\ lastLine.name = f_s_name
    /\ \E n \in DOMAIN Data : n # f_s_name

====
